---- MODULE Spec2Model ----
(***************************************************************************)
(* m3u8load: the playlist-resolution and segment-fetch pipeline of         *)
(* src/go.mod (package cmd), as a state machine.                           *)
(*                                                                         *)
(* Go strings that name things are sequences of path components: the URL   *)
(* "http://h/d2/a" is <<"http","h","d2","a">>, the relative URI "a" is     *)
(* <<"a">>, string concatenation is \o, and strings.LastIndex(s,"/") = -1  *)
(* exactly when the sequence has one component.                            *)
(***************************************************************************)
EXTENDS Integers, Sequences, FiniteSets, TLC

\* ------------------------------------------------------------------ bounds
MaxParallel == 2     \* the -n flag ranges over 1..MaxParallel
MaxRuns == 2         \* invocations of the program on the same output directory
MaxHops == 2         \* nested getPlaylist calls followed from selector manifests

\* --------------------------------------------------------- program constants
CacheSize == 1024    \* lru.New(1024)
ChanCap == 1024      \* make(chan *Download, 1024)

\* ------------------------------------------------------------------ strings
TopUrl == <<"http", "h", "top.m3u8">>

EmptyMap == [k \in {} |-> FALSE]

Store(m, k, v) == [x \in (DOMAIN m) \cup {k} |-> IF x = k THEN v ELSE m[x]]

Range(s) == {s[i] : i \in 1..Len(s)}

\* strings.HasPrefix(uri, "http")
HasHttpPrefix(uri) == Len(uri) > 0 /\ uri[1] = "http"

\* url.QueryUnescape on one component: %61 is the escape of "a"
UnescapeComp(c) == IF c = "%61" THEN "a" ELSE c

QueryUnescape(uri) == [i \in 1..Len(uri) |-> UnescapeComp(uri[i])]

\* playlistUrl.Parse(ref).String(): a reference resolved against the playlist's
\* own URL; the empty reference is the playlist URL itself
UrlParse(base, ref) ==
  IF ref = <<>> THEN base ELSE SubSeq(base, 1, Len(base) - 1) \o ref

getAbsoluteUri(masterURI, playlistUrl) ==
  QueryUnescape(IF HasHttpPrefix(masterURI) THEN masterURI
                ELSE UrlParse(playlistUrl, masterURI))

\* uri[index+1:] with index = strings.LastIndex(uri, "/")
getFileName(uri) == SubSeq(uri, Len(uri), Len(uri))

\* uri[:index+1] of the absolute uri
getFilePath(uri, playlistUrl) ==
  LET abs == getAbsoluteUri(uri, playlistUrl)
  IN  SubSeq(abs, 1, Len(abs) - 1)

\* ------------------------------------------------------- the served playlists
\* A scenario is what the manifest server answers: the playlist at TopUrl is a
\* segment manifest (MEDIA), a selector manifest (MASTER) or not decodable
\* (BAD); every rendition URL of a selector manifest serves the segment
\* manifest segs/closed, or an undecodable body when vbad.
Scenario(type, variants, segs, closed, extra, vbad) ==
  [type |-> type, variants |-> variants, segs |-> segs, closed |-> closed,
   extra |-> extra, vbad |-> vbad]

Variant(bw, uri) == [Bandwidth |-> bw, URI |-> uri]

Bandwidths == {0, 500, 2000}

VariantUris == <<<<"v1.m3u8">>, <<"v2.m3u8">>, <<"v3.m3u8">>>>

\* every list of 1..2 renditions over Bandwidths, and the list 500, 2000, 1200;
\* rendition i has URI v<i>.m3u8
VariantLists ==
  UNION {{[i \in 1..n |-> Variant(b[i], VariantUris[i])] : b \in [1..n -> Bandwidths]}
         : n \in 1..2}
  \cup {<<Variant(500, VariantUris[1]), Variant(2000, VariantUris[2]),
          Variant(1200, VariantUris[3])>>}

MediaScenarios ==
  { Scenario("MEDIA", <<>>, <<<<"a">>, <<"b">>, <<"c">>>>, TRUE, <<>>, FALSE),
    Scenario("MEDIA", <<>>, <<<<"a">>, <<"http", "h", "d2", "a">>>>, TRUE, <<>>, FALSE),
    Scenario("MEDIA", <<>>, <<<<"%61">>>>, TRUE, <<>>, FALSE),
    Scenario("MEDIA", <<>>, <<<<"a">>, <<"a">>>>, TRUE, <<>>, FALSE),
    Scenario("MEDIA", <<>>, <<<<"a">>>>, FALSE, <<<<"b">>>>, FALSE),
    Scenario("BAD", <<>>, <<>>, TRUE, <<>>, FALSE) }

MasterScenarios ==
  {Scenario("MASTER", v, <<<<"a">>>>, TRUE, <<>>, FALSE) : v \in VariantLists}
  \cup {Scenario("MASTER", <<Variant(500, <<"v1.m3u8">>)>>, <<>>, TRUE, <<>>, TRUE)}

Scenarios == MediaScenarios \cup MasterScenarios

\* the playlist served at url; a live manifest that has grown lists extra too
Served(url, w, g) ==
  IF url = TopUrl
  THEN [type |-> w.type, variants |-> w.variants,
        segs |-> IF w.type = "MEDIA" /\ g THEN w.segs \o w.extra ELSE w.segs,
        closed |-> w.closed]
  ELSE [type |-> IF w.vbad THEN "BAD" ELSE "MEDIA", variants |-> <<>>,
        segs |-> w.segs, closed |-> w.closed]

\* --------------------------------------------------------------------- state
VARIABLES
  web,          \* what the manifest server serves (a Scenario)
  grown,        \* the live manifest has been extended by web.extra
  parallel,     \* the -n flag
  dir,          \* outPath: "exists", "missing" or "uncreatable"
  index,        \* outPath/.index, the checkpoint file
  files,        \* outPath/<name>: name -> content (the URI it was fetched from)
  artifact,     \* outPath.ts
  run,          \* number of this invocation
  exit,         \* "running", or how the process ended
  hist,         \* how the earlier invocations ended
  pc,           \* downloadFunc / downloadSegmentLimit (the main goroutine)
  cur,          \* v, the descriptor received from dlc
  rpc,          \* getPlaylist / getContinuePlaylist (the resolver goroutine)
  rurl,         \* urlStr of the innermost getPlaylist call
  rsegs,        \* mpl.Segments (non-nil entries)
  rclosed,      \* mpl.Closed
  ri,           \* index of the range loops over mpl.Segments
  rdefer,       \* getPlaylist calls on the stack (deferred catchException each)
  cache,        \* lru cache of the innermost getPlaylist call, most recent first
  rleft,        \* keys of MediaStatus not yet visited by getContinuePlaylist
  sig,          \* listenSignal: "idle"; in writeJsonFile, "W1" at Range, "W2" after it
  status,       \* downloadProcess.status (*sync.Map; nil until initialised)
  MediaStatus,  \* downloadProcess.MediaStatus
  MediaList,    \* downloadProcess.MediaList
  Path,         \* downloadProcess.Path
  bar,          \* bar # nil
  dlc,          \* msChan
  chLimit,      \* number of values buffered in chLimit
  wg,           \* WaitGroup counter
  mu,           \* downloadProcess.Mutex is held
  tasks,        \* downloadSegment goroutines in spawn order
  fetches,      \* manifest URLs requested in this run, in order
  enq,          \* descriptors sent on dlc in this run, in order
  got,          \* segment URIs requested (HTTP GET) in this run
  merge,        \* mergeMediaFile in this run: "none", "ok", "aborted"
  loaded,       \* the checkpoint file as downloadFunc found it in this run
  done          \* names of the segment files completed in this run, in order

disk == <<dir, index, files, artifact>>
env == <<web, grown, parallel>>
mem == <<status, MediaStatus, MediaList, Path, bar>>
chans == <<dlc, chLimit, wg>>
resolver == <<rpc, rurl, rsegs, rclosed, ri, rdefer, cache, rleft>>
obs == <<fetches, enq, got, merge, hist, loaded, done>>
vars == <<web, grown, parallel, dir, index, files, artifact, run, exit, hist,
          pc, cur, rpc, rurl, rsegs, rclosed, ri, rdefer, cache, rleft, sig,
          status, MediaStatus, MediaList, Path, bar, dlc, chLimit, wg, mu,
          tasks, fetches, enq, got, merge, loaded, done>>

NilMap == [nil |-> TRUE, m |-> EmptyMap]
NewMap == [nil |-> FALSE, m |-> EmptyMap]
NoIndex == [exists |-> FALSE, Path |-> <<>>, MediaStatus |-> EmptyMap, MediaList |-> <<>>]
NoArtifact == [exists |-> FALSE, data |-> <<>>]
Partial == <<"partial">>

\* the memory of a freshly started process
Fresh ==
  /\ exit = "running" /\ pc = "start" /\ cur = <<>>
  /\ rpc = "none" /\ rurl = <<>> /\ rsegs = <<>> /\ rclosed = FALSE /\ ri = 0
  /\ rdefer = 0 /\ cache = <<>> /\ rleft = {}
  /\ sig = "idle"
  /\ status = NilMap /\ MediaStatus = NilMap /\ MediaList = <<>> /\ Path = <<>>
  /\ bar = FALSE
  /\ dlc = [q |-> <<>>, closed |-> FALSE] /\ chLimit = 0 /\ wg = 0 /\ mu = FALSE
  /\ tasks = <<>>
  /\ fetches = <<>> /\ enq = <<>> /\ got = {} /\ merge = "none"
  /\ loaded = NoIndex /\ done = <<>>

Init ==
  /\ web \in Scenarios
  /\ grown = FALSE
  /\ parallel \in 1..MaxParallel
  /\ dir \in {"exists", "missing", "uncreatable"}
  /\ index = NoIndex /\ files = EmptyMap /\ artifact = NoArtifact
  /\ run = 1 /\ hist = <<>>
  /\ Fresh

Running == exit = "running"

\* ------------------------------------------------------------ writeJsonFile
\* Lock, the nil check of MediaStatus and the Range over status. Range on a nil
\* *sync.Map is a nil dereference with the lock held and never released. Where
\* the caller is the only deferred catchException of its goroutine the panic is
\* not recovered and the process dies; where another deferred catchException
\* encloses it (enclosed), that one recovers the panic and then blocks for ever
\* in its own writeJsonFile, at Lock.
CopyStatus(st, ms) ==
  [nil |-> FALSE,
   m |-> [k \in (DOMAIN ms.m) \cup (DOMAIN st.m) |->
            IF k \in DOMAIN st.m THEN st.m[k] ELSE ms.m[k]]]

wjCanLockAlways == TRUE

wjCanLock == ~mu

wjCopy(enclosed) ==
  /\ wjCanLock
  /\ IF status.nil
     THEN /\ exit' = IF enclosed THEN exit ELSE "crash"
          /\ mu' = TRUE
          /\ MediaStatus' = [MediaStatus EXCEPT !.nil = FALSE]
     ELSE /\ mu' = TRUE
          /\ MediaStatus' = CopyStatus(status, MediaStatus)
          /\ UNCHANGED exit

\* json.MarshalIndent(downloadProcess), ioutil.WriteFile (its error dropped), Unlock
Checkpoint ==
  [exists |-> TRUE, Path |-> Path, MediaStatus |-> MediaStatus.m,
   MediaList |-> MediaList]

wjWrite ==
  /\ index' = IF dir = "exists" THEN Checkpoint ELSE index
  /\ mu' = FALSE

\* -------------------------------------------------- downloadFunc (main goroutine)
\* lines 123-152: go listenSignal, the stat of .index, load, and the resolver
\* goroutine that is started
downloadFunc ==
  /\ Running /\ pc = "start"
  /\ pc' = "stat"
  /\ rdefer' = 1
  /\ loaded' = index
  /\ IF ~index.exists
     THEN /\ rpc' = "fetch" /\ rurl' = TopUrl
          /\ UNCHANGED <<Path, MediaStatus, MediaList>>
     ELSE /\ Path' = index.Path
          /\ MediaStatus' = [nil |-> FALSE, m |-> index.MediaStatus]
          /\ MediaList' = index.MediaList
          /\ IF Len(index.MediaList) > 0
             THEN rpc' = "cinit" /\ rurl' = rurl
             ELSE rpc' = "fetch" /\ rurl' = TopUrl
  /\ UNCHANGED <<env, disk, run, exit, hist, cur, rsegs, rclosed, ri, cache, rleft,
                 sig, status, bar, chans, mu, tasks, fetches, enq, got, merge, done>>

\* lines 200-210: os.Stat(outPath), os.Mkdir, log.Panic when it fails (recovered by
\* the deferred catchException of downloadSegmentLimit)
downloadSegmentLimit ==
  /\ Running /\ pc = "stat"
  /\ dir' = IF dir = "missing" THEN "exists" ELSE dir
  /\ pc' = IF dir = "uncreatable" THEN "limitW1" ELSE "range"
  /\ UNCHANGED <<env, index, files, artifact, run, exit, hist, cur, resolver, sig,
                 mem, chans, mu, tasks, fetches, enq, got, merge, loaded, done>>

\* line 212: for v := range dlc; lines 219-220 when dlc is closed and drained
rangeDlc ==
  /\ Running /\ pc = "range"
  /\ IF dlc.q # <<>>
     THEN /\ cur' = Head(dlc.q)
          /\ dlc' = [dlc EXCEPT !.q = Tail(dlc.q)]
          /\ pc' = "acquire"
     ELSE /\ dlc.closed
          /\ pc' = "wait"
          /\ UNCHANGED <<cur, dlc>>
  /\ UNCHANGED <<env, disk, run, exit, hist, resolver, sig, mem, chLimit, wg, mu,
                 tasks, fetches, enq, got, merge, loaded, done>>

\* the send on chLimit blocks while parallel values are buffered
CanAcquireAlways == TRUE

CanAcquire == chLimit < parallel

\* lines 213-216: chLimit <- true; wg.Add(1); go downloadSegment
spawn ==
  /\ Running /\ pc = "acquire"
  /\ CanAcquire
  /\ chLimit' = chLimit + 1
  /\ wg' = wg + 1
  /\ tasks' = Append(tasks, [uri |-> cur, pc |-> "req"])
  /\ pc' = "range"
  /\ UNCHANGED <<env, disk, run, exit, hist, cur, resolver, sig, mem, dlc, mu,
                 fetches, enq, got, merge, loaded, done>>

\* wg.Wait() returns when the WaitGroup counter is zero
WaitReturnsAlways == TRUE

WaitReturns == wg = 0

\* line 220: wg.Wait()
wgWait ==
  /\ Running /\ pc = "wait"
  /\ WaitReturns
  /\ pc' = "limitW1"
  /\ UNCHANGED <<env, disk, run, exit, hist, cur, resolver, sig, mem, chans, mu,
                 tasks, fetches, enq, got, merge, loaded, done>>

\* the main goroutine's calls of writeJsonFile: the deferred catchException of
\* downloadSegmentLimit (limit), writeAndMergeFile (main), and the deferred
\* catchException of downloadFunc after a panic in it (panic); the first two run
\* under the deferred catchException of downloadFunc (line 120)
mainWriteCopy ==
  /\ Running /\ pc \in {"limitW1", "mainW1", "panicW1"}
  /\ wjCopy(pc \in {"limitW1", "mainW1"})
  /\ pc' = IF status.nil THEN (IF pc = "panicW1" THEN pc ELSE "hung")
           ELSE CASE pc = "limitW1" -> "limitW2"
                  [] pc = "mainW1" -> "mainW2"
                  [] pc = "panicW1" -> "panicW2"
  /\ UNCHANGED <<env, disk, run, hist, cur, resolver, sig, status, MediaList, Path,
                 bar, chans, tasks, fetches, enq, got, merge, loaded, done>>

\* after the deferred catchException of downloadFunc the command returns and the
\* process ends with status 0
mainWriteFile ==
  /\ Running /\ pc \in {"limitW2", "mainW2", "panicW2"}
  /\ wjWrite
  /\ pc' = CASE pc = "limitW2" -> "finish"
             [] pc = "mainW2" -> "merge"
             [] pc = "panicW2" -> "returned"
  /\ exit' = IF pc = "panicW2" THEN "returned" ELSE exit
  /\ UNCHANGED <<env, dir, files, artifact, run, hist, cur, resolver, sig, mem,
                 chans, tasks, fetches, enq, got, merge, loaded, done>>

\* line 154: bar.Finish(), a nil dereference when no resolver has set bar
barFinish ==
  /\ Running /\ pc = "finish"
  /\ pc' = IF bar THEN "mainW1" ELSE "panicW1"
  /\ UNCHANGED <<env, disk, run, exit, hist, cur, resolver, sig, mem, chans, mu,
                 tasks, fetches, enq, got, merge, loaded, done>>

\* ------------------------------------------------------------ mergeMediaFile
\* the order in which the merge visits the segment files
MergeOrderReversed(list) == [i \in 1..Len(list) |-> list[Len(list) + 1 - i]]

MergeOrder(list) == list

\* the first position of order whose file cannot be opened (Len + 1: none)
FirstMissing(order, fs) ==
  LET miss == {i \in 1..Len(order) : order[i] \notin DOMAIN fs}
  IN  IF miss = {} THEN Len(order) + 1
      ELSE CHOOSE i \in miss : \A j \in miss : i <= j

\* lines 489-502: the files appended until one is missing
MergeData(list, fs) ==
  LET order == MergeOrder(list)
      k == FirstMissing(order, fs)
  IN  [i \in 1..(k - 1) |-> fs[order[i]]]

\* lines 474-504; os.OpenFile of outPath.ts fails where outPath cannot be created
mergeMediaFile ==
  /\ Running /\ pc = "merge"
  /\ IF dir = "uncreatable"
     THEN /\ pc' = "panicW1"
          /\ UNCHANGED <<artifact, merge, loaded, done>>
     ELSE /\ artifact' = [exists |-> TRUE, data |-> MergeData(MediaList, files)]
          /\ merge' = IF FirstMissing(MergeOrder(MediaList), files) > Len(MediaList)
                      THEN "ok" ELSE "aborted"
          /\ pc' = "exit"
  /\ UNCHANGED <<env, dir, index, files, run, exit, hist, cur, resolver, sig, mem,
                 chans, mu, tasks, fetches, enq, got, loaded, done>>

\* line 159: os.Exit(0)
osExit ==
  /\ Running /\ pc = "exit"
  /\ exit' = "done"
  /\ pc' = "exited"
  /\ UNCHANGED <<env, disk, run, hist, cur, resolver, sig, mem, chans, mu, tasks,
                 fetches, enq, got, merge, loaded, done>>

\* ------------------------------------------------ getPlaylist (resolver goroutine)
\* lines 379-386: the URI of the first rendition whose bandwidth exceeds every
\* earlier one, starting from maxBandwidth = 0 and masterURI = ""
RECURSIVE SelectFrom(_, _, _, _)
SelectFrom(variants, i, maxBandwidth, masterURI) ==
  IF i > Len(variants) THEN masterURI
  ELSE IF variants[i].Bandwidth > maxBandwidth
       THEN SelectFrom(variants, i + 1, variants[i].Bandwidth, variants[i].URI)
       ELSE SelectFrom(variants, i + 1, maxBandwidth, masterURI)

SelectVariant(variants) == SelectFrom(variants, 1, 0, <<>>)

\* groupcache lru: Get moves a hit to the front; Add puts the key in front and
\* drops the oldest entry beyond CacheSize
LruHit(c, key) == key \in Range(c)

LruWithout(c, key) == SelectSeq(c, LAMBDA x : x # key)

LruGet(c, key) == IF LruHit(c, key) THEN <<key>> \o LruWithout(c, key) ELSE c

LruAdd(c, key) ==
  LET d == <<key>> \o LruWithout(c, key)
  IN  IF Len(d) > CacheSize THEN SubSeq(d, 1, CacheSize) ELSE d

\* lines 361-362: whether the descriptor is sent
SendsAlways(c, msURI) == TRUE

Sends(c, msURI) == ~LruHit(c, msURI)

\* lines 314-340, 375-395: the request, the decoding and the dispatch on the list
\* type. After a transport error the function sleeps for 3 s (getPlaylistRetry).
\* A selector manifest calls getPlaylist again on the selected rendition.
getPlaylistFetch ==
  /\ Running /\ rpc = "fetch"
  /\ fetches' = Append(fetches, rurl)
  /\ \E transportOk \in BOOLEAN :
       LET playlist == Served(rurl, web, grown) IN
       IF ~transportOk
       THEN /\ rpc' = "retry"
            /\ UNCHANGED <<rurl, rsegs, rclosed, ri, rdefer, cache, status>>
       ELSE IF playlist.type = "BAD"
       THEN /\ rpc' = "deferW1"
            /\ UNCHANGED <<rurl, rsegs, rclosed, ri, rdefer, cache, status>>
       ELSE IF playlist.type = "MEDIA"
       THEN /\ rpc' = "build"
            /\ cache' = <<>>
            /\ status' = NewMap
            /\ rsegs' = playlist.segs
            /\ rclosed' = playlist.closed
            /\ ri' = 1
            /\ UNCHANGED <<rurl, rdefer>>
       ELSE /\ cache' = <<>>
            /\ IF rdefer < MaxHops
               THEN /\ rurl' = getAbsoluteUri(SelectVariant(playlist.variants), rurl)
                    /\ rdefer' = rdefer + 1
                    /\ rpc' = "fetch"
               ELSE /\ rpc' = "capped"
                    /\ UNCHANGED <<rurl, rdefer>>
            /\ UNCHANGED <<rsegs, rclosed, ri, status>>
  /\ UNCHANGED <<env, disk, run, exit, hist, pc, cur, rleft, sig, MediaStatus,
                 MediaList, Path, bar, chans, mu, tasks, enq, got, merge, loaded, done>>

\* lines 325-329: after the sleep that follows a transport error, resp is still
\* nil and resp.Body is a nil dereference: the function panics into its deferred
\* catchException without another request
getPlaylistRetry ==
  /\ Running /\ rpc = "retry"
  /\ rpc' = "deferW1"
  /\ UNCHANGED <<env, disk, run, exit, hist, pc, cur, rurl, rsegs, rclosed, ri,
                 rdefer, cache, rleft, sig, mem, chans, mu, tasks, fetches, enq,
                 got, merge, loaded, done>>

\* lines 341-354: one iteration of the loop that builds MediaList, or, at its
\* end, the progress bar
getPlaylistBuild ==
  /\ Running /\ rpc = "build"
  /\ IF ri <= Len(rsegs)
     THEN LET name == getFileName(rsegs[ri]) IN
          /\ Path' = IF Path = <<>> THEN getFilePath(rsegs[ri], rurl) ELSE Path
          /\ status' = [status EXCEPT !.m = Store(status.m, name, FALSE)]
          /\ MediaList' = Append(MediaList, name)
          /\ ri' = ri + 1
          /\ UNCHANGED <<rpc, bar>>
     ELSE /\ bar' = TRUE
          /\ rpc' = "emit"
          /\ ri' = 1
          /\ UNCHANGED <<Path, status, MediaList>>
  /\ UNCHANGED <<env, disk, run, exit, hist, pc, cur, rurl, rsegs, rclosed, rdefer,
                 cache, rleft, sig, MediaStatus, chans, mu, tasks, fetches, enq,
                 got, merge, loaded, done>>

\* lines 356-374: one iteration of the loop that sends the descriptors, or, at
\* its end, close(dlc) for a closed manifest and the sleep for a live one
getPlaylistEmit ==
  /\ Running /\ rpc = "emit"
  /\ IF ri <= Len(rsegs)
     THEN LET msURI == getAbsoluteUri(rsegs[ri], rurl) IN
          /\ IF Sends(cache, msURI)
             THEN /\ Len(dlc.q) < ChanCap
                  /\ cache' = LruAdd(cache, msURI)
                  /\ dlc' = [dlc EXCEPT !.q = Append(dlc.q, msURI)]
                  /\ enq' = Append(enq, msURI)
             ELSE /\ cache' = LruGet(cache, msURI)
                  /\ UNCHANGED <<dlc, enq>>
          /\ ri' = ri + 1
          /\ UNCHANGED rpc
     ELSE /\ IF rclosed
             THEN dlc' = [dlc EXCEPT !.closed = TRUE] /\ rpc' = "deferW1"
             ELSE dlc' = dlc /\ rpc' = "sleep"
          /\ UNCHANGED <<ri, cache, enq>>
  /\ UNCHANGED <<env, disk, run, exit, hist, pc, cur, rurl, rsegs, rclosed, rdefer,
                 rleft, sig, mem, chLimit, wg, mu, tasks, fetches, got, merge, loaded, done>>

\* line 373: time.Sleep(targetDuration), after which the function ends
getPlaylistSleep ==
  /\ Running /\ rpc = "sleep"
  /\ rpc' = "deferW1"
  /\ UNCHANGED <<env, disk, run, exit, hist, pc, cur, rurl, rsegs, rclosed, ri,
                 rdefer, cache, rleft, sig, mem, chans, mu, tasks, fetches, enq,
                 got, merge, loaded, done>>

\* the deferred catchException of every getPlaylist / getContinuePlaylist call on
\* the stack, innermost first
resolverWriteCopy ==
  /\ Running /\ rpc = "deferW1"
  /\ wjCopy(rdefer > 1)
  /\ rpc' = IF status.nil THEN (IF rdefer > 1 THEN "hung" ELSE rpc) ELSE "deferW2"
  /\ UNCHANGED <<env, disk, run, hist, pc, cur, rurl, rsegs, rclosed, ri, rdefer,
                 cache, rleft, sig, status, MediaList, Path, bar, chans, tasks,
                 fetches, enq, got, merge, loaded, done>>

resolverWriteFile ==
  /\ Running /\ rpc = "deferW2"
  /\ wjWrite
  /\ rdefer' = rdefer - 1
  /\ rpc' = IF rdefer = 1 THEN "done" ELSE "deferW1"
  /\ UNCHANGED <<env, dir, files, artifact, run, exit, hist, pc, cur, rurl, rsegs,
                 rclosed, ri, cache, rleft, sig, mem, chans, tasks, fetches, enq,
                 got, merge, loaded, done>>

\* ----------------------------------------------------------- getContinuePlaylist
\* lines 293-294
getContinuePlaylist ==
  /\ Running /\ rpc = "cinit"
  /\ bar' = TRUE
  /\ status' = NewMap
  /\ rleft' = DOMAIN MediaStatus.m
  /\ rpc' = "cloop"
  /\ UNCHANGED <<env, disk, run, exit, hist, pc, cur, rurl, rsegs, rclosed, ri,
                 rdefer, cache, sig, MediaStatus, MediaList, Path, chans, mu, tasks,
                 fetches, enq, got, merge, loaded, done>>

\* line 296: a descriptor is sent for a key whose value is false
ResendAlways(value) == TRUE

Resend(value) == value = FALSE

\* lines 295-306: one iteration of the range over the map MediaStatus (in any
\* order), or close(dlc) at its end
getContinueLoop ==
  /\ Running /\ rpc = "cloop"
  /\ IF rleft # {}
     THEN \E key \in rleft :
            /\ rleft' = rleft \ {key}
            /\ status' = [status EXCEPT !.m = Store(status.m, key, MediaStatus.m[key])]
            /\ IF Resend(MediaStatus.m[key])
               THEN /\ Len(dlc.q) < ChanCap
                    /\ dlc' = [dlc EXCEPT !.q = Append(dlc.q, Path \o key)]
                    /\ enq' = Append(enq, Path \o key)
               ELSE UNCHANGED <<dlc, enq>>
            /\ UNCHANGED rpc
     ELSE /\ dlc' = [dlc EXCEPT !.closed = TRUE]
          /\ rpc' = "deferW1"
          /\ UNCHANGED <<rleft, status, enq>>
  /\ UNCHANGED <<env, disk, run, exit, hist, pc, cur, rurl, rsegs, rclosed, ri,
                 rdefer, cache, sig, MediaStatus, MediaList, Path, bar, chLimit, wg,
                 mu, tasks, fetches, got, merge, loaded, done>>

\* --------------------------------------------------- downloadSegment (fetch tasks)
\* line 229: downloadProcess.status.Load(v.URI), the key being the whole URI
Loaded(st, uri) == uri \in DOMAIN st.m

\* lines 399-401
setMediaStatusKeep(st, uri, value) ==
  LET name == getFileName(uri)
  IN  [st EXCEPT !.m = Store(st.m, name,
                             IF name \in DOMAIN st.m /\ st.m[name] THEN TRUE ELSE value)]

setMediaStatus(st, uri, value) ==
  [st EXCEPT !.m = Store(st.m, getFileName(uri), value)]

\* whether a task that leaves the body of downloadSegment this way reaches lines
\* 266-268 (wg.Done and the receive from chLimit): the returns inside the body
\* ("skip", "err", "non200") and the recovered panic ("copyfail") do not
ReachesEndAlways(how) == TRUE

ReachesEnd(how) == how \in {"ok", "noslash"}

\* lines 226-268: the skip test, the request with its outcomes, the segment file,
\* the status, and the end of the body
downloadSegment(i) ==
  /\ Running /\ tasks[i].pc = "req"
  /\ LET uri == tasks[i].uri
         name == getFileName(uri)
     IN  \E outcome \in {"ok", "err", "non200", "copyfail"} :
           LET how == IF Len(uri) = 1 THEN "noslash"
                      ELSE IF Loaded(status, uri) THEN "skip"
                      ELSE outcome
           IN  /\ got' = IF how \in {"noslash", "skip"} THEN got ELSE got \cup {uri}
               /\ files' = CASE how = "ok" -> Store(files, name, uri)
                              [] how = "copyfail" -> Store(files, name, Partial)
                              [] OTHER -> files
               /\ status' = CASE how = "ok" -> setMediaStatus(status, uri, TRUE)
                               [] how \in {"err", "non200"} ->
                                    setMediaStatus(status, uri, FALSE)
                               [] OTHER -> status
               /\ done' = IF how = "ok" THEN Append(done, name) ELSE done
               /\ wg' = IF ReachesEnd(how) THEN wg - 1 ELSE wg
               /\ chLimit' = IF ReachesEnd(how) THEN chLimit - 1 ELSE chLimit
               /\ tasks' = [tasks EXCEPT ![i].pc = "W1"]
  /\ UNCHANGED <<env, dir, index, artifact, run, exit, hist, pc, cur, resolver, sig,
                 MediaStatus, MediaList, Path, bar, dlc, mu, fetches, enq, merge, loaded>>

\* the deferred catchException of downloadSegment
taskWriteCopy(i) ==
  /\ Running /\ tasks[i].pc = "W1"
  /\ wjCopy(FALSE)
  /\ tasks' = [tasks EXCEPT ![i].pc = "W2"]
  /\ UNCHANGED <<env, disk, run, hist, pc, cur, resolver, sig, status, MediaList,
                 Path, bar, chans, fetches, enq, got, merge, loaded, done>>

taskWriteFile(i) ==
  /\ Running /\ tasks[i].pc = "W2"
  /\ wjWrite
  /\ tasks' = [tasks EXCEPT ![i].pc = "ret"]
  /\ UNCHANGED <<env, dir, files, artifact, run, exit, hist, pc, cur, resolver, sig,
                 mem, chans, fetches, enq, got, merge, loaded, done>>

\* ------------------------------------------------------------------ listenSignal
\* lines 436-439: a termination signal is delivered and the handler enters
\* writeJsonFile (Lock and the copy of status); the handler goroutine exists once
\* downloadFunc has started it (line 123)
listenSignal ==
  /\ Running /\ sig = "idle" /\ pc # "start"
  /\ wjCopy(FALSE)
  /\ sig' = IF status.nil THEN "W1" ELSE "W2"
  /\ UNCHANGED <<env, disk, run, hist, pc, cur, resolver, status, MediaList, Path,
                 bar, chans, tasks, fetches, enq, got, merge, loaded, done>>

\* lines 439-440: the write, then os.Exit(0)
signalWriteFile ==
  /\ Running /\ sig = "W2"
  /\ wjWrite
  /\ exit' = "signal"
  /\ UNCHANGED <<env, dir, files, artifact, run, hist, pc, cur, resolver, sig, mem,
                 chans, tasks, fetches, enq, got, merge, loaded, done>>

\* the process exit status
ExitCode(e) == IF e = "crash" THEN 2 ELSE 0

\* ------------------------------------------------------------------ environment
\* the program is started again on the same output directory, after a run that
\* did not end with a complete merge
Restart ==
  /\ ~Running /\ run < MaxRuns
  /\ ~(exit = "done" /\ merge = "ok")
  /\ run' = run + 1
  /\ hist' = Append(hist, exit)
  /\ exit' = "running" /\ pc' = "start" /\ cur' = <<>>
  /\ rpc' = "none" /\ rurl' = <<>> /\ rsegs' = <<>> /\ rclosed' = FALSE /\ ri' = 0
  /\ rdefer' = 0 /\ cache' = <<>> /\ rleft' = {}
  /\ sig' = "idle"
  /\ status' = NilMap /\ MediaStatus' = NilMap /\ MediaList' = <<>> /\ Path' = <<>>
  /\ bar' = FALSE
  /\ dlc' = [q |-> <<>>, closed |-> FALSE] /\ chLimit' = 0 /\ wg' = 0 /\ mu' = FALSE
  /\ tasks' = <<>>
  /\ fetches' = <<>> /\ enq' = <<>> /\ got' = {} /\ merge' = "none"
  /\ loaded' = NoIndex /\ done' = <<>>
  /\ UNCHANGED <<env, disk>>

\* the server appends a segment to a live manifest
ManifestGrow ==
  /\ web.type = "MEDIA" /\ ~web.closed /\ ~grown /\ web.extra # <<>>
  /\ grown' = TRUE
  /\ UNCHANGED <<web, parallel, disk, run, exit, hist, pc, cur, resolver, sig, mem,
                 chans, mu, tasks, fetches, enq, got, merge, loaded, done>>

Next ==
  \/ downloadFunc
  \/ downloadSegmentLimit
  \/ rangeDlc
  \/ spawn
  \/ wgWait
  \/ mainWriteCopy
  \/ mainWriteFile
  \/ barFinish
  \/ mergeMediaFile
  \/ osExit
  \/ getPlaylistFetch
  \/ getPlaylistRetry
  \/ getPlaylistBuild
  \/ getPlaylistEmit
  \/ getPlaylistSleep
  \/ resolverWriteCopy
  \/ resolverWriteFile
  \/ getContinuePlaylist
  \/ getContinueLoop
  \/ \E i \in 1..Len(tasks) : downloadSegment(i)
  \/ \E i \in 1..Len(tasks) : taskWriteCopy(i)
  \/ \E i \in 1..Len(tasks) : taskWriteFile(i)
  \/ listenSignal
  \/ signalWriteFile
  \/ Restart
  \/ ManifestGrow

Spec == Init /\ [][Next]_vars

\* ===================================================================== claims
Count(seq, x) == Cardinality({i \in 1..Len(seq) : seq[i] = x})

Distinct(seq) == \A i, j \in 1..Len(seq) : i # j => seq[i] # seq[j]

\* fetch tasks inside the body of downloadSegment (before its end or a return)
InBody == {i \in 1..Len(tasks) : tasks[i].pc = "req"}

\* fetch tasks spawned whose goroutine has not returned
NotReturned == {i \in 1..Len(tasks) : tasks[i].pc # "ret"}

\* a closed segment manifest at TopUrl whose segment URIs have distinct names
\* and no percent escapes
PlainClosed(w) ==
  /\ w.type = "MEDIA" /\ w.closed
  /\ Distinct([i \in 1..Len(w.segs) |-> getFileName(w.segs[i])])
  /\ \A i \in 1..Len(w.segs) : QueryUnescape(w.segs[i]) = w.segs[i]

\* the content of every manifest segment, in manifest order
ExpectedArtifact(w) == [i \in 1..Len(w.segs) |-> getAbsoluteUri(w.segs[i], TopUrl)]

\* ---- C1
\* C1 (as claimed): in every reachable state the number of fetch tasks that have
\* been spawned and have not yet returned is at most the concurrency limit.
C1_SpawnedNotReturnedBounded == Cardinality(NotReturned) <= parallel

\* C1 (amended): in every reachable state the number of fetch tasks that are
\* still inside the body of downloadSegment (request, file, status) is at most
\* the number of held slots, which is at most the concurrency limit.
C1_InBodyBounded ==
  /\ Cardinality(InBody) <= chLimit
  /\ chLimit <= parallel

\* limit 2 reached with a third descriptor waiting for a slot
C1_Witness ==
  /\ parallel = 2
  /\ Cardinality(InBody) = 2
  /\ pc = "acquire"

\* ---- C2
\* the steps of the process itself (no signal, no restart, no manifest growth)
ProcessNext ==
  \/ downloadFunc \/ downloadSegmentLimit \/ rangeDlc \/ spawn \/ wgWait
  \/ mainWriteCopy \/ mainWriteFile \/ barFinish \/ mergeMediaFile \/ osExit
  \/ getPlaylistFetch \/ getPlaylistRetry \/ getPlaylistBuild \/ getPlaylistEmit
  \/ getPlaylistSleep
  \/ resolverWriteCopy \/ resolverWriteFile \/ getContinuePlaylist \/ getContinueLoop
  \/ \E i \in 1..Len(tasks) : downloadSegment(i)
  \/ \E i \in 1..Len(tasks) : taskWriteCopy(i)
  \/ \E i \in 1..Len(tasks) : taskWriteFile(i)

\* Fetching is over: the segment stream is drained and wg.Wait has returned
FetchingOver == pc \notin {"start", "stat", "range", "acquire", "wait"}

\* C2: for a closed manifest and no termination signal, the run always goes on
\* until Fetching is over and Merging is entered, whatever the outcome of each
\* segment fetch: a running process that has not finished Fetching can take a step.
C2_FailuresNonFatal ==
  (Running /\ sig = "idle" /\ web.type = "MEDIA" /\ web.closed)
    => (FetchingOver \/ ENABLED ProcessNext)

\* ---- C3
\* C3: when the merge found every segment file, the artifact is the
\* concatenation of the segment files in MediaList order, whatever the order in
\* which the fetch tasks completed.
C3_OrderPreserved ==
  merge = "ok" =>
    /\ artifact.exists
    /\ artifact.data = [i \in 1..Len(MediaList) |-> files[MediaList[i]]]

\* three segments merged after completing in an order other than MediaList's
C3_Witness ==
  /\ merge = "ok"
  /\ Len(MediaList) = 3
  /\ Len(done) = 3
  /\ done # MediaList

\* ---- C4
\* C4: a run that follows a run interrupted by a termination signal, on the same
\* closed manifest and output directory, and that completes its merge, leaves
\* the artifact of an uninterrupted run: every manifest segment, in manifest order.
C4_ResumeSameArtifact ==
  (PlainClosed(web) /\ "signal" \in Range(hist) /\ exit = "done" /\ merge = "ok")
    => (artifact.exists /\ artifact.data = ExpectedArtifact(web))

\* ---- C5
\* this run found a checkpoint with a non-empty MediaList
ResumeRun == pc # "start" /\ loaded.exists /\ Len(loaded.MediaList) > 0

ResolverReturning == rpc \in {"deferW1", "deferW2", "done"}

\* the persisted status of a segment name is complete
PersistedComplete(name) ==
  name \in DOMAIN loaded.MediaStatus /\ loaded.MediaStatus[name]

\* C5: in a resume run no manifest is fetched; a descriptor is sent only for a
\* MediaList entry whose persisted status is not complete, at most once, and
\* exactly once for each such entry by the time the resolver is through, when
\* the stream is closed; no segment whose persisted status is true is requested
\* again.
C5_ResumeEmission ==
  ResumeRun =>
    /\ fetches = <<>>
    /\ \A i \in 1..Len(enq) :
         /\ getFileName(enq[i]) \in Range(loaded.MediaList)
         /\ ~PersistedComplete(getFileName(enq[i]))
    /\ \A name \in Range(loaded.MediaList) :
         /\ Count(enq, loaded.Path \o name) <= 1
         /\ PersistedComplete(name) => Count(enq, loaded.Path \o name) = 0
         /\ (ResolverReturning /\ ~PersistedComplete(name))
              => Count(enq, loaded.Path \o name) = 1
    /\ ResolverReturning => dlc.closed
    /\ \A u \in got : ~PersistedComplete(getFileName(u))

\* ---- C6
\* a live segment manifest is served at TopUrl
Live(w) == w.type = "MEDIA" /\ ~w.closed

\* C6: every distinct absolute segment URI is sent on the stream at most once in
\* a run, and when a live manifest has grown by one entry, a resolver that is
\* through with its passes has sent every entry of the grown manifest exactly
\* once: the new entry too, the earlier ones not again.
C6_DedupAcrossPasses ==
  /\ Distinct(enq)
  /\ (Live(web) /\ grown /\ fetches # <<>> /\ rpc = "done") =>
       \A i \in 1..Len(Served(TopUrl, web, grown).segs) :
         Count(enq, getAbsoluteUri(Served(TopUrl, web, grown).segs[i], TopUrl)) = 1

\* ---- C7
\* the first rendition among those of maximum bandwidth
FirstMax(variants) ==
  CHOOSE i \in 1..Len(variants) :
    /\ \A j \in 1..Len(variants) : variants[j].Bandwidth <= variants[i].Bandwidth
    /\ \A j \in 1..(i - 1) : variants[j].Bandwidth < variants[i].Bandwidth

\* C7: for every non-empty list of renditions of a selector manifest, the second
\* manifest request of the resolver goes to the URI of the first rendition of
\* maximum bandwidth.
C7_FollowsMaxBandwidth ==
  (web.type = "MASTER" /\ Len(fetches) >= 2) =>
    fetches[2] = getAbsoluteUri(web.variants[FirstMax(web.variants)].URI, TopUrl)

\* ---- C8
\* C8: when the merge (here: of the first run on the output directory) stops at a
\* missing segment file, nothing of a later segment is appended, and the process
\* does not end with a truncated artifact on disk and the exit status of a success.
C8_MergeAbortNotSilent ==
  (merge = "aborted" /\ ~Running /\ hist = <<>>) =>
    /\ Len(artifact.data) < Len(MediaList)
    /\ \A i \in 1..Len(artifact.data) : artifact.data[i] = files[MediaList[i]]
    /\ ~(artifact.exists /\ ExitCode(exit) = 0)

\* ---- C9
\* C9: the process ends with status zero only when the artifact has been merged
\* from every segment of MediaList (so not after a merge abort, a termination
\* signal, a failed Mkdir or an undecodable manifest).
C9_ZeroOnlyWhenMerged ==
  (~Running /\ ExitCode(exit) = 0) => (exit = "done" /\ merge = "ok")

\* ---- C10
\* C10: when a termination signal has been delivered and the process has ended
\* while still Resolving or Fetching, it ended through the handler, after the
\* checkpoint was written with the statuses in memory, and without a merge.
C10_SignalPersistsCheckpoint ==
  (sig # "idle" /\ ~Running /\ ~FetchingOver) =>
    /\ exit = "signal"
    /\ merge = "none"
    /\ dir = "exists" => index = Checkpoint

\* ---- C11
\* no fetch task is inside the body of downloadSegment
NoTaskActive == \A i \in 1..Len(tasks) : tasks[i].pc # "req"

\* C11: every fetch task gives back its slot and signals the WaitGroup on every
\* way out of downloadSegment, so whenever no fetch task is active no slot is
\* held and the WaitGroup counter is zero.
C11_SlotsReleased ==
  (Running /\ NoTaskActive) => (chLimit = 0 /\ wg = 0)

\* ---- C12
\* the status of the segment name of uri is true
CompleteName(uri) ==
  /\ getFileName(uri) \in DOMAIN status.m
  /\ status.m[getFileName(uri)]

\* C12: a fetch task whose segment name already has status true goes through
\* downloadSegment without an HTTP request, without a change of the status map
\* and without writing the segment file.
C12_IdempotentSkip ==
  [][\A i \in 1..Len(tasks) :
       (/\ i <= Len(tasks')
        /\ tasks[i].pc = "req" /\ tasks'[i].pc = "W1"
        /\ CompleteName(tasks[i].uri))
         => (got' = got /\ files' = files /\ status' = status)]_vars

\* ---- C13
\* C13: after the sleep that follows a pass over a live manifest the resolver
\* fetches the manifest again (and so after every pass, while the process runs),
\* and it does not close the segment stream.
C13_LivePolling ==
  [][(rpc = "sleep" /\ Running' /\ rpc' # "sleep")
       => (rpc' = "fetch" /\ ~dlc'.closed)]_vars

\* ---- C14
\* some spawned fetch task has not returned from its deferred catchException
SomeTaskReturning == \E i \in 1..Len(tasks) : tasks[i].pc \in {"W1", "W2"}

AllTasksReturned == \A i \in 1..Len(tasks) : tasks[i].pc = "ret"

C15_CheckpointKeys ==
  index.exists => Range(index.MediaList) \subseteq DOMAIN index.MediaStatus

\* ---- C16
\* C16: MediaList holds each segment name at most once, whatever the manifest
\* lists.
C16_NoDuplicateNames == Distinct(MediaList)

\* ---- C17
\* the goroutines between Lock and Unlock of writeJsonFile
Persisting ==
  {<<"task", i>> : i \in {j \in 1..Len(tasks) : tasks[j].pc = "W2"}}
    \cup (IF pc \in {"limitW2", "mainW2", "panicW2"} THEN {<<"main", 0>>} ELSE {})
    \cup (IF rpc = "deferW2" THEN {<<"resolver", 0>>} ELSE {})
    \cup (IF sig = "W2" THEN {<<"signal", 0>>} ELSE {})

\* the goroutines that have reached writeJsonFile and wait for the lock
WaitingForLock ==
  {<<"task", i>> : i \in {j \in 1..Len(tasks) : tasks[j].pc = "W1"}}
    \cup (IF pc \in {"limitW1", "mainW1", "panicW1"} THEN {<<"main", 0>>} ELSE {})
    \cup (IF rpc = "deferW1" THEN {<<"resolver", 0>>} ELSE {})

\* C17: while the process runs, at most one goroutine is between the copy of
\* the status map and the write of the checkpoint file, and it holds the lock.
C17_PersistenceExclusive ==
  Running =>
    /\ Cardinality(Persisting) <= 1
    /\ Persisting # {} => mu

\* a goroutine persists the checkpoint while two others wait for the lock
C17_Witness ==
  /\ Running
  /\ Cardinality(Persisting) = 1
  /\ Cardinality(WaitingForLock) >= 2

\* ---- C18
\* C18: after the sleep that follows a failed manifest request the resolver
\* requests the same manifest once more before it goes on to decode.
C18_SecondAttempt ==
  [][(rpc = "retry" /\ Running' /\ rpc' # "retry")
       => fetches' = Append(fetches, rurl)]_vars

\* ---- C19
\* the last manifest the resolver requested was served and cannot be decoded
DecodeFailed ==
  /\ fetches # <<>>
  /\ Served(fetches[Len(fetches)], web, grown).type = "BAD"
  /\ rpc \notin {"fetch", "retry"}

\* C19: after a manifest body that cannot be decoded, and with no signal, the
\* run does not wait for ever (while it runs, the process can take a step), and
\* when the process has ended the checkpoint is on disk.
C19_DecodeFailureFlushed ==
  (DecodeFailed /\ sig = "idle" /\ dir = "exists") =>
    IF Running THEN ENABLED ProcessNext ELSE index.exists

\* ---- C20
\* C20: within a run, a segment name whose status is true keeps the status true
\* in every later state of the run.
C20_StatusMonotone ==
  [][\A name \in DOMAIN status.m :
       (status.m[name] /\ Running' /\ run' = run)
         => (name \in DOMAIN status'.m /\ status'.m[name])]_vars

====
